---- MODULE Spec2Model ----
(***************************************************************************)
(* Model of the wallet ledger: app/services/ledger.py (LedgerService),     *)
(* app/routers/wallet.py (top_up, bonus, spend), app/models.py (the three  *)
(* tables), app/database.py (one AsyncSession per request) and seed.py     *)
(* (the seeded store).                                                     *)
(*                                                                         *)
(* The store is a PostgreSQL database at its default isolation level       *)
(* (READ COMMITTED): every statement reads the rows committed at the time  *)
(* it runs, SELECT ... FOR UPDATE takes row locks one row at a time in the *)
(* ORDER BY order and waits for a row another unit of work holds, an       *)
(* INSERT of a key that another open unit of work has inserted waits for   *)
(* that unit to end, and COMMIT publishes all rows of the unit at once.    *)
(* Each request owns one SQLAlchemy session: an identity map of the        *)
(* Account objects it has loaded, whose attributes a later SELECT of the   *)
(* same row does not overwrite (no populate_existing, nothing expired).    *)
(***************************************************************************)
EXTENDS Integers, Sequences, FiniteSets, TLC

\* Number of requests (sessions) the model runs.
NumSessions == 2

Sessions == 1..NumSessions

\* seed.py: the amounts of the genesis funding and of the two welcome bonuses.
GenesisAmount == 1000000000
AliceBonus == 100
BobBonus == 50

\* Request inputs: TransactionRequest.amount (gt=0), user_id, reference_id.
\* Users 2 and 3 are alice and bob; user 4 has no account.
Amounts == {50, 70}
Users == {2, 3, 4}
Refs == {"r1", "r2"}

\* Entry lists given to process_transaction by a caller other than the routers.
DirectEntries ==
    { << <<3, 10>>, <<4, -5>> >>,                  \* unbalanced
      << <<3, -50>>, <<4, 50>> >>,                 \* wallet to wallet
      << <<4, -50>>, <<3, 50>> >>,                 \* the same pair, other order
      << <<3, 50>>, <<999, -50>> >>,               \* an account id no row has
      << <<2, 200>>, <<3, -200>> >>,               \* overdraft on the second entry
      << <<3, -150>>, <<3, 100>>, <<2, 50>> >>,    \* one account twice
      << <<1, -50>>, <<4, 50>> >>,                 \* Equity, below zero, pays
      << <<3, -200>>, <<999, 150>> >>,             \* unbalanced, unknown id, overdraft
      << <<3, -200>>, <<999, 200>> >>,             \* unknown id and overdraft
      << <<4, -100>>, <<3, -200>>, <<2, 300>> >> } \* two overdrafts, 4 before 3

VARIABLES
    accounts,       \* committed table accounts: id -> row
    transactions,   \* committed table transactions: set of rows
    postings,       \* committed table postings: set of rows
    tx_seq,         \* sequence behind transactions.id
    posting_seq,    \* sequence behind postings.id
    pc,             \* per session: the request's position
    req,            \* per session: the request being served
    identity,       \* per session: identity map, account id -> loaded object
    locked,         \* per session: account rows it holds FOR UPDATE
    new_tx,         \* per session: flushed, uncommitted Transaction row
    new_postings,   \* per session: pending Posting objects, in order
    outcome,        \* per session: how the request ended
    stmts           \* per session: statements process_transaction has executed

vars == << accounts, transactions, postings, tx_seq, posting_seq,
           pc, req, identity, locked, new_tx, new_postings, outcome, stmts >>

store == << accounts, transactions, postings >>

----------------------------------------------------------------------------
(* The seeded store: seed.py *)

SeedAccounts ==
    (1 :> [user_id |-> 1, name |-> "Equity", currency |-> "GOLD",
           balance |-> 0 - GenesisAmount, version |-> 0]) @@
    (2 :> [user_id |-> 1, name |-> "Treasury", currency |-> "GOLD",
           balance |-> GenesisAmount - AliceBonus - BobBonus, version |-> 0]) @@
    (3 :> [user_id |-> 2, name |-> "Alice's Wallet", currency |-> "GOLD",
           balance |-> AliceBonus, version |-> 0]) @@
    (4 :> [user_id |-> 3, name |-> "Bob's Wallet", currency |-> "GOLD",
           balance |-> BobBonus, version |-> 0])

SeedTransactions ==
    { [id |-> 1, reference_id |-> "genesis_001", type |-> "topup"],
      [id |-> 2, reference_id |-> "seed_alice_001", type |-> "bonus"],
      [id |-> 3, reference_id |-> "seed_bob_001", type |-> "bonus"] }

SeedPostings ==
    { [id |-> 1, transaction_id |-> 1, account_id |-> 2, amount |-> GenesisAmount],
      [id |-> 2, transaction_id |-> 1, account_id |-> 1, amount |-> 0 - GenesisAmount],
      [id |-> 3, transaction_id |-> 2, account_id |-> 2, amount |-> 0 - AliceBonus],
      [id |-> 4, transaction_id |-> 2, account_id |-> 3, amount |-> AliceBonus],
      [id |-> 5, transaction_id |-> 3, account_id |-> 2, amount |-> 0 - BobBonus],
      [id |-> 6, transaction_id |-> 3, account_id |-> 4, amount |-> BobBonus] }

NoTx == [id |-> 0, reference_id |-> "", type |-> ""]
NoReq == [kind |-> "", reference_id |-> "", type |-> "", user_id |-> 0,
          amount |-> 0, entries |-> << >>]
NoOutcome == [kind |-> "", arg |-> 0]
EmptyMap == [a \in {} |-> 0]

----------------------------------------------------------------------------
(* Pure parts of LedgerService.process_transaction *)

RECURSIVE SumAmounts(_)
\* sum(amount for _, amount in entries)
SumAmounts(entries) ==
    IF entries = << >> THEN 0
    ELSE Head(entries)[2] + SumAmounts(Tail(entries))

\* Mutant: the double-entry rule is not checked.
BalancedUnchecked(entries) == TRUE

\* Step 1: the double-entry rule.
Balanced(entries) == SumAmounts(entries) = 0

\* Mutant: the lookup by reference_id finds nothing.
ExistingTxNone(rows, reference_id) == {}

\* Step 2: the row the lookup by reference_id finds among the visible rows.
ExistingTx(rows, reference_id) == { t \in rows : t.reference_id = reference_id }

\* set(acc_id for acc_id, _ in entries)
AccountIdsOf(entries) == { entries[i][1] : i \in DOMAIN entries }

RECURSIVE Sorted(_)
\* sorted(list(ids)): ascending
Sorted(ids) ==
    IF ids = {} THEN << >>
    ELSE LET m == CHOOSE x \in ids : \A y \in ids : x <= y
         IN  << m >> \o Sorted(ids \ {m})

RECURSIVE EntryOrderIds(_)
\* Mutant: the account rows are visited in the order the entries name them.
EntryOrderIds(entries) ==
    IF entries = << >> THEN << >>
    ELSE LET rest == EntryOrderIds(Tail(entries))
         IN  << Head(entries)[1] >> \o SelectSeq(rest, LAMBDA a : a # Head(entries)[1])

\* Step 3: the order in which SELECT ... ORDER BY Account.id FOR UPDATE visits
\* (and locks) the account rows named by the entries.
UniqueAccountIds(entries) == Sorted(AccountIdsOf(entries))

\* Mutant: the error carries the first id of the entries, missing or not.
FirstIds(ids, found) == { CHOOSE x \in ids : \A y \in ids : x <= y }

\* len(accounts) != len(unique_account_ids): the ids no returned row has; the
\* error carries list(missing_ids)[0], whichever of them comes first.
MissingIds(ids, found) == ids \ found

\* Mutant: reference_id carries no unique index.
NoUniqueIndex(rows, reference_id) == FALSE

\* The unique index on transactions.reference_id, checked when the INSERT is
\* flushed: a committed row with the same key makes the INSERT fail.
UniqueViolation(rows, reference_id) == \E t \in rows : t.reference_id = reference_id

\* Mutant: the Transaction row is committed where it should be flushed.
FlushCommits(rows, tx) == rows \cup {tx}

\* db.flush() after db.add(transaction): the row is written inside the open
\* unit of work and readers of the committed table see what they saw before.
AfterFlush(rows, tx) == rows

\* Mutant: "Treasury" alone is exempt from the non-negative rule.
ExemptTreasuryOnly(name) == name = "Treasury"

\* Mutant: every account is exempt from the non-negative rule.
ExemptAll(name) == TRUE

\* account.name not in ["Equity", "Treasury"]
Exempt(name) == name \in {"Equity", "Treasury"}

\* What the session holds for a row a SELECT returns: an object already in the
\* identity map keeps its loaded attributes, a new one takes the row's.
Loaded(map, id, row) ==
    IF id \in DOMAIN map THEN map
    ELSE map @@ (id :> [balance |-> row.balance, loaded |-> row.balance,
                        name |-> row.name])

RECURSIVE ApplyReversed(_, _, _)
\* Mutant: the loop runs over the entries from the last one to the first.
ApplyReversed(entries, map, added) ==
    IF entries = << >> THEN [ok |-> TRUE, map |-> map, added |-> added, account_id |-> 0]
    ELSE LET last == entries[Len(entries)]
             new_balance == map[last[1]].balance + last[2]
         IN  IF new_balance < 0 /\ map[last[1]].name \notin {"Equity", "Treasury"}
             THEN [ok |-> FALSE, map |-> map, added |-> added, account_id |-> last[1]]
             ELSE ApplyReversed(SubSeq(entries, 1, Len(entries) - 1),
                                [map EXCEPT ![last[1]].balance = new_balance],
                                Append(added, [account_id |-> last[1], amount |-> last[2]]))

RECURSIVE ApplyEntries(_, _, _)
\* Step 5: the loop over the entries, from the objects in `map` and the
\* postings added so far. It stops at the first entry that would take a
\* non-exempt account below zero.
ApplyEntries(entries, map, added) ==
    IF entries = << >> THEN [ok |-> TRUE, map |-> map, added |-> added, account_id |-> 0]
    ELSE LET account_id == Head(entries)[1]
             amount == Head(entries)[2]
             account == map[account_id]
             new_balance == account.balance + amount
         IN  IF new_balance < 0 /\ ~Exempt(account.name)
             THEN [ok |-> FALSE, map |-> map, added |-> added, account_id |-> account_id]
             ELSE ApplyEntries(Tail(entries),
                               [map EXCEPT ![account_id].balance = new_balance],
                               Append(added, [account_id |-> account_id, amount |-> amount]))

\* The UPDATE the unit of work emits at flush for an object of the identity
\* map: only for an attribute whose value differs from the loaded one.
Dirty(map) == { a \in DOMAIN map : map[a].balance # map[a].loaded }

\* Mutant: the UPDATE of a changed balance also counts the row's version up.
FlushBalancesVersioned(table, map) ==
    [a \in DOMAIN table |->
        IF a \in Dirty(map)
        THEN [table[a] EXCEPT !.balance = map[a].balance, !.version = @ + 1]
        ELSE table[a]]

\* The rows of `table` after the flush of the session's changed balances.
FlushBalances(table, map) ==
    [a \in DOMAIN table |->
        IF a \in Dirty(map) THEN [table[a] EXCEPT !.balance = map[a].balance]
        ELSE table[a]]

\* The Posting rows inserted at flush, numbered by the postings sequence.
FlushPostings(added, tx, seq) ==
    { [id |-> seq + i, transaction_id |-> tx.id,
       account_id |-> added[i].account_id, amount |-> added[i].amount] :
      i \in DOMAIN added }

----------------------------------------------------------------------------
(* The routers: app/routers/wallet.py *)

\* get_system_account: the accounts with that name.
SystemAccounts(name) == { a \in DOMAIN accounts : accounts[a].name = name }

\* get_user_main_account: the accounts of that user (the first one is used,
\* in whatever order the store returns them).
UserAccounts(user_id) == { a \in DOMAIN accounts : accounts[a].user_id = user_id }

TopUpEntries(treasury, wallet, amount) ==
    << <<treasury, 0 - amount>>, <<wallet, amount>> >>

SpendEntries(treasury, wallet, amount) ==
    << <<wallet, 0 - amount>>, <<treasury, amount>> >>

\* An exception leaves the handler or process_transaction: the request has
\* failed, its unit of work is still open.
Raise(s, kind, arg) ==
    /\ pc' = [pc EXCEPT ![s] = "failed"]
    /\ outcome' = [outcome EXCEPT ![s] = [kind |-> kind, arg |-> arg]]

\* Sessions are numbered in the order their requests arrive.
Arrives(s) == pc[s] = "idle" /\ \A o \in Sessions : o < s => pc[o] # "idle"

\* The start of a handler: the request arrives in a new session and
\* get_system_account(db, "Treasury") reads the Treasury row.
Handler(s, kind, type, user_id, amount, reference_id) ==
    /\ Arrives(s)
    /\ req' = [req EXCEPT ![s] =
           [kind |-> kind, reference_id |-> reference_id, type |-> type,
            user_id |-> user_id, amount |-> amount, entries |-> << >>]]
    /\ IF SystemAccounts("Treasury") = {}
       THEN /\ Raise(s, "HTTPException", 500)
            /\ UNCHANGED identity
       ELSE /\ \E treasury \in SystemAccounts("Treasury") :
                 identity' = [identity EXCEPT ![s] =
                                 Loaded(EmptyMap, treasury, accounts[treasury])]
            /\ pc' = [pc EXCEPT ![s] = "wallet"]
            /\ UNCHANGED outcome
    /\ UNCHANGED << store, tx_seq, posting_seq, locked, new_tx, new_postings, stmts >>

top_up(s) ==
    \E u \in Users, a \in Amounts, r \in Refs : Handler(s, "top_up", "topup", u, a, r)

bonus(s) ==
    \E u \in Users, a \in Amounts, r \in Refs : Handler(s, "bonus", "bonus", u, a, r)

spend(s) ==
    \E u \in Users, a \in Amounts, r \in Refs : Handler(s, "spend", "purchase", u, a, r)

\* get_user_main_account(db, request.user_id), then the entries the handler
\* builds for its call of process_transaction.
get_user_main_account(s) ==
    /\ pc[s] = "wallet"
    /\ IF UserAccounts(req[s].user_id) = {}
       THEN /\ Raise(s, "HTTPException", 404)
            /\ UNCHANGED << req, identity >>
       ELSE /\ \E treasury \in DOMAIN identity[s], wallet \in UserAccounts(req[s].user_id) :
                 /\ identity' = [identity EXCEPT ![s] = Loaded(@, wallet, accounts[wallet])]
                 /\ req' = [req EXCEPT ![s].entries =
                               IF req[s].kind = "spend"
                               THEN SpendEntries(treasury, wallet, req[s].amount)
                               ELSE TopUpEntries(treasury, wallet, req[s].amount)]
            /\ pc' = [pc EXCEPT ![s] = "call"]
            /\ UNCHANGED outcome
    /\ UNCHANGED << store, tx_seq, posting_seq, locked, new_tx, new_postings, stmts >>

\* process_transaction called with entries of the caller's own, in a new
\* session that has loaded nothing.
process_transaction(s) ==
    /\ Arrives(s)
    /\ \E e \in DirectEntries, r \in Refs :
         req' = [req EXCEPT ![s] =
                [kind |-> "direct", reference_id |-> r, type |-> "refund",
                 user_id |-> 0, amount |-> 0, entries |-> e]]
    /\ pc' = [pc EXCEPT ![s] = "call"]
    /\ UNCHANGED << store, tx_seq, posting_seq, identity, locked, new_tx,
                    new_postings, outcome, stmts >>

RECURSIVE TotalBalance(_)
\* sum(acc.balance for acc in accounts)
TotalBalance(ids) ==
    IF ids = {} THEN 0
    ELSE LET a == CHOOSE x \in ids : TRUE
         IN  accounts[a].balance + TotalBalance(ids \ {a})

\* GET /wallet/{user_id}/balance: one SELECT of the user's accounts, answered
\* with their total; the session is closed with nothing to roll back.
get_balance(s) ==
    /\ Arrives(s)
    /\ \E u \in Users :
         /\ req' = [req EXCEPT ![s] =
                [kind |-> "get_balance", reference_id |-> "", type |-> "",
                 user_id |-> u, amount |-> 0, entries |-> << >>]]
         /\ outcome' = [outcome EXCEPT ![s] =
                [kind |-> "balance", arg |-> TotalBalance(UserAccounts(u))]]
    /\ pc' = [pc EXCEPT ![s] = "done"]
    /\ UNCHANGED << store, tx_seq, posting_seq, identity, locked, new_tx,
                    new_postings, stmts >>

\* Account ids given to LedgerService.get_balance: Alice's wallet, Bob's
\* wallet and an id no row has.
BalanceQueries == {3, 4, 999}

\* LedgerService.get_balance(account_id), called in a new session: one SELECT
\* of the row, without a lock; the balance is returned, or
\* AccountNotFoundError raised when there is no such row.
LedgerService_get_balance(s) ==
    /\ Arrives(s)
    /\ \E account_id \in BalanceQueries :
         /\ req' = [req EXCEPT ![s] =
                [kind |-> "LedgerService.get_balance", reference_id |-> "",
                 type |-> "", user_id |-> 0, amount |-> 0, entries |-> << >>]]
         /\ IF account_id \notin DOMAIN accounts
            THEN Raise(s, "AccountNotFoundError", account_id)
            ELSE /\ outcome' = [outcome EXCEPT ![s] =
                        [kind |-> "balance", arg |-> accounts[account_id].balance]]
                 /\ pc' = [pc EXCEPT ![s] = "done"]
    /\ UNCHANGED << store, tx_seq, posting_seq, identity, locked, new_tx,
                    new_postings, stmts >>

----------------------------------------------------------------------------
(* The steps of LedgerService.process_transaction *)

\* Mutant: the lookup by reference_id runs before the double-entry rule.
lookup_before_validation(s) ==
    /\ pc[s] = "call"
    /\ stmts' = [stmts EXCEPT ![s] = @ + 1]
    /\ IF \E t \in transactions : t.reference_id = req[s].reference_id
       THEN Raise(s, "IdempotencyError", 0)
       ELSE IF SumAmounts(req[s].entries) # 0
            THEN Raise(s, "ValueError", SumAmounts(req[s].entries))
            ELSE /\ pc' = [pc EXCEPT ![s] = "lock"]
                 /\ UNCHANGED outcome
    /\ UNCHANGED << store, tx_seq, posting_seq, req, identity, locked, new_tx,
                    new_postings >>

\* Steps 1 and 2: the double-entry rule, then the lookup by reference_id.
idempotency_check(s) ==
    /\ pc[s] = "call"
    /\ IF ~Balanced(req[s].entries)
       THEN /\ Raise(s, "ValueError", SumAmounts(req[s].entries))
            /\ UNCHANGED stmts
       ELSE /\ stmts' = [stmts EXCEPT ![s] = @ + 1]
            /\ IF ExistingTx(transactions, req[s].reference_id) # {}
               THEN Raise(s, "IdempotencyError", 0)
               ELSE /\ pc' = [pc EXCEPT ![s] = "lock"]
                    /\ UNCHANGED outcome
    /\ UNCHANGED << store, tx_seq, posting_seq, req, identity, locked, new_tx,
                    new_postings >>

\* Mutant: the FOR UPDATE statement locks the first of the rows only.
ToLockFirst(s) ==
    SelectSeq(SubSeq(UniqueAccountIds(req[s].entries), 1, 1),
              LAMBDA a : a \in DOMAIN accounts /\ a \notin locked[s])

\* The account rows the FOR UPDATE statement of session s has still to lock,
\* in the order it visits them.
ToLock(s) ==
    SelectSeq(UniqueAccountIds(req[s].entries),
              LAMBDA a : a \in DOMAIN accounts /\ a \notin locked[s])

HeldByOther(s, a) == \E o \in Sessions \ {s} : a \in locked[o]

RECURSIVE LoadAll(_, _)
\* The objects of the rows the statement returned.
LoadAll(map, ids) ==
    IF ids = {} THEN map
    ELSE LET a == CHOOSE x \in ids : TRUE
         IN  LoadAll(Loaded(map, a, accounts[a]), ids \ {a})

\* Step 3: SELECT ... FOR UPDATE. Each step locks the next row; when the last
\* one is locked the statement returns and the found rows are counted.
lock_accounts(s) ==
    /\ pc[s] = "lock"
    /\ LET todo == ToLock(s)
           ids == AccountIdsOf(req[s].entries)
           found == ids \cap DOMAIN accounts
       IN  /\ todo # << >> => ~HeldByOther(s, Head(todo))
           /\ locked' = [locked EXCEPT ![s] =
                            IF todo = << >> THEN @ ELSE @ \cup {Head(todo)}]
           /\ IF Len(todo) > 1
              THEN UNCHANGED << pc, outcome, identity, stmts >>
              ELSE /\ stmts' = [stmts EXCEPT ![s] = @ + 1]
                   /\ identity' = [identity EXCEPT ![s] = LoadAll(@, found)]
                   /\ IF Cardinality(found) # Cardinality(ids)
                      THEN \E missing \in MissingIds(ids, found) :
                               Raise(s, "AccountNotFoundError", missing)
                      ELSE /\ pc' = [pc EXCEPT ![s] = "insert"]
                           /\ UNCHANGED outcome
    /\ UNCHANGED << store, tx_seq, posting_seq, req, new_tx, new_postings >>

\* Another open unit of work has inserted the same reference_id: the unique
\* index makes this INSERT wait until that unit ends.
InsertWaits(s) ==
    \E o \in Sessions \ {s} : new_tx[o].reference_id = req[s].reference_id

\* Steps 4 and 5: the Transaction row is flushed (the unique index on
\* reference_id is checked then), then the loop over the entries runs.
create_transaction(s) ==
    /\ pc[s] = "insert"
    /\ ~InsertWaits(s)
    /\ stmts' = [stmts EXCEPT ![s] = @ + 1]
    /\ tx_seq' = tx_seq + 1
    /\ IF UniqueViolation(transactions, req[s].reference_id)
       THEN /\ Raise(s, "IntegrityError", 0)
            /\ UNCHANGED << transactions, identity, new_tx, new_postings >>
       ELSE LET tx == [id |-> tx_seq + 1, reference_id |-> req[s].reference_id,
                       type |-> req[s].type]
                res == ApplyEntries(req[s].entries, identity[s], << >>)
            IN  /\ new_tx' = [new_tx EXCEPT ![s] = tx]
                /\ transactions' = AfterFlush(transactions, tx)
                /\ identity' = [identity EXCEPT ![s] = res.map]
                /\ new_postings' = [new_postings EXCEPT ![s] = res.added]
                /\ IF res.ok
                   THEN /\ pc' = [pc EXCEPT ![s] = "commit"]
                        /\ UNCHANGED outcome
                   ELSE Raise(s, "InsufficientFundsError", res.account_id)
    /\ UNCHANGED << accounts, postings, posting_seq, req, locked >>

\* The request ends: the session is closed.
EndSession(s) ==
    /\ identity' = [identity EXCEPT ![s] = EmptyMap]
    /\ locked' = [locked EXCEPT ![s] = {}]
    /\ new_tx' = [new_tx EXCEPT ![s] = NoTx]
    /\ new_postings' = [new_postings EXCEPT ![s] = << >>]
    /\ pc' = [pc EXCEPT ![s] = "done"]

\* db.commit() in the handler: flush of the postings and the changed balances,
\* then COMMIT, which publishes the unit of work and releases its locks.
commit(s) ==
    /\ pc[s] = "commit"
    /\ accounts' = FlushBalances(accounts, identity[s])
    /\ transactions' = transactions \cup {new_tx[s]}
    /\ postings' = postings \cup FlushPostings(new_postings[s], new_tx[s], posting_seq)
    /\ posting_seq' = posting_seq + Len(new_postings[s])
    /\ outcome' = [outcome EXCEPT ![s] = [kind |-> "ok", arg |-> new_tx[s].id]]
    /\ EndSession(s)
    /\ UNCHANGED << tx_seq, req, stmts >>

\* Mutant: closing the session commits the open unit of work.
close_commits(s) ==
    /\ pc[s] = "failed"
    /\ accounts' = FlushBalances(accounts, identity[s])
    /\ transactions' = transactions \cup ({new_tx[s]} \ {NoTx})
    /\ postings' = postings \cup FlushPostings(new_postings[s], new_tx[s], posting_seq)
    /\ posting_seq' = posting_seq + Len(new_postings[s])
    /\ EndSession(s)
    /\ UNCHANGED << tx_seq, req, outcome, stmts >>

\* Mutant: closing the session of a failed request deletes the Transaction
\* row of its reference id.
close_deletes(s) ==
    /\ pc[s] = "failed"
    /\ transactions' = { t \in transactions : t.reference_id # req[s].reference_id }
    /\ EndSession(s)
    /\ UNCHANGED << accounts, postings, tx_seq, posting_seq, req, outcome, stmts >>

\* get_db's finally: session.close() rolls the open unit of work back.
close(s) ==
    /\ pc[s] = "failed"
    /\ EndSession(s)
    /\ UNCHANGED << store, tx_seq, posting_seq, req, outcome, stmts >>

\* The subclasses of WalletException that process_transaction raises.
WalletExceptions == {"InsufficientFundsError", "AccountNotFoundError", "IdempotencyError"}

\* top_up, bonus, spend: `except WalletException as e: raise
\* HTTPException(status_code=400, ...)`; any other exception leaves the
\* handler as it is.
HandlerExcept(exc) ==
    IF exc.kind \in WalletExceptions THEN [kind |-> "HTTPException", arg |-> 400]
    ELSE exc

\* The status of the response the application gives for what left the
\* handler: a return value, an HTTPException, an exception with a registered
\* handler (the one of the most specific class), or any other exception.
exception_handler(exc) ==
    CASE exc.kind \in {"ok", "balance"} -> 200
      [] exc.kind = "HTTPException" -> exc.arg
      [] exc.kind = "IdempotencyError" -> 409
      [] exc.kind \in WalletExceptions \ {"IdempotencyError"} -> 400
      [] OTHER -> 500

\* The status code that answers the request of session s, once it has ended.
status_code(s) == exception_handler(HandlerExcept(outcome[s]))

\* The store gives up a lock wait (lock_timeout, statement_timeout): the
\* waiting statement fails.
lock_timeout(s) ==
    /\ IF pc[s] = "lock"
       THEN ToLock(s) # << >> /\ HeldByOther(s, Head(ToLock(s)))
       ELSE pc[s] = "insert" /\ InsertWaits(s)
    /\ Raise(s, "OperationalError", 0)
    /\ UNCHANGED << store, tx_seq, posting_seq, req, identity, locked, new_tx,
                    new_postings, stmts >>

----------------------------------------------------------------------------

Init ==
    /\ accounts = SeedAccounts
    /\ transactions = SeedTransactions
    /\ postings = SeedPostings
    /\ tx_seq = Cardinality(SeedTransactions)
    /\ posting_seq = Cardinality(SeedPostings)
    /\ pc = [s \in Sessions |-> "idle"]
    /\ req = [s \in Sessions |-> NoReq]
    /\ identity = [s \in Sessions |-> EmptyMap]
    /\ locked = [s \in Sessions |-> {}]
    /\ new_tx = [s \in Sessions |-> NoTx]
    /\ new_postings = [s \in Sessions |-> << >>]
    /\ outcome = [s \in Sessions |-> NoOutcome]
    /\ stmts = [s \in Sessions |-> 0]

Step(s) ==
    \/ top_up(s)
    \/ bonus(s)
    \/ spend(s)
    \/ get_user_main_account(s)
    \/ process_transaction(s)
    \/ get_balance(s)
    \/ LedgerService_get_balance(s)
    \/ idempotency_check(s)
    \/ lock_accounts(s)
    \/ create_transaction(s)
    \/ commit(s)
    \/ close(s)

Next == \E s \in Sessions : Step(s) \/ lock_timeout(s)

Spec == Init /\ [][Next]_vars

\* Every request that can take a step eventually takes it: the event loop runs
\* every ready handler and the store grants a released lock to a waiter. A lock
\* wait need never time out.
FairSpec == Spec /\ \A s \in Sessions : WF_vars(Step(s))

----------------------------------------------------------------------------
(* Properties *)

RECURSIVE SumOf(_)
\* The sum of the amounts of a set of posting rows.
SumOf(rows) ==
    IF rows = {} THEN 0
    ELSE LET p == CHOOSE x \in rows : TRUE
         IN  p.amount + SumOf(rows \ {p})

PostingsOfAccount(a) == { p \in postings : p.account_id = a }
PostingsOfTx(id) == { p \in postings : p.transaction_id = id }

\* The requests that were committed.
Committed == { s \in Sessions : outcome[s].kind = "ok" }

\* Every request so far came through top_up, bonus or spend.
HandlersOnly == \A s \in Sessions : req[s].kind # "direct"

\* C1: under concurrent top_up, bonus and spend requests, every account's
\* committed balance equals the sum of the amounts of the committed postings
\* that reference it.
BalanceDerivation ==
    HandlersOnly =>
        \A a \in DOMAIN accounts : accounts[a].balance = SumOf(PostingsOfAccount(a))

\* C2: the postings of every committed transaction sum to zero.
ZeroSum ==
    \A t \in transactions : SumOf(PostingsOfTx(t.id)) = 0

\* C2 witness: a request's transaction is committed with its two postings.
ZeroSumWitness ==
    \E s \in Committed :
        /\ Cardinality(PostingsOfTx(outcome[s].arg)) = 2
        /\ \E t \in transactions : t.id = outcome[s].arg

\* C3: the committed balance of every account whose name is neither "Equity"
\* nor "Treasury" is never negative.
NonNegativeFloor ==
    \A a \in DOMAIN accounts :
        accounts[a].name \notin {"Equity", "Treasury"} => accounts[a].balance >= 0

\* C3 witness: a spend on a wallet was committed and another spend on the
\* same wallet was refused with InsufficientFunds; the wallet holds less than
\* it was seeded with, and not less than zero.
NonNegativeFloorWitness ==
    \E s \in Committed, o \in Sessions :
        /\ req[s].kind = "spend" /\ req[o].kind = "spend"
        /\ req[s].user_id = 2 /\ req[o].user_id = 2
        /\ outcome[o] = [kind |-> "InsufficientFundsError", arg |-> 3]
        /\ accounts[3].balance < AliceBonus
        /\ accounts[3].balance >= 0

RECURSIVE EntrySum(_)
\* The sum of the amounts of a list of entries.
EntrySum(entries) ==
    IF entries = << >> THEN 0
    ELSE entries[1][2] + EntrySum(SubSeq(entries, 2, Len(entries)))

\* A committed Transaction row carries this reference id.
RefCommitted(r) == \E t \in transactions : t.reference_id = r

\* Session s has nothing flushed or pending in its unit of work.
NothingPending(s) ==
    /\ new_tx[s] = NoTx
    /\ new_postings[s] = << >>
    /\ \A a \in DOMAIN identity[s] : identity[s][a].balance = identity[s][a].loaded

\* C4: a balanced call whose reference id is already committed when it looks
\* the reference up fails with IdempotencyError, and that step changes no
\* account, transaction or posting and leaves nothing pending.
IdempotentReplay ==
    [][\A s \in Sessions :
          ( /\ pc[s] = "call"
            /\ pc'[s] # "call"
            /\ EntrySum(req[s].entries) = 0
            /\ RefCommitted(req[s].reference_id) )
          => /\ outcome'[s].kind = "IdempotencyError"
             /\ store' = store
             /\ NothingPending(s)'
             /\ locked'[s] = {}]_vars

\* C4 witness: a call was committed and a later call with the same reference
\* id and the same entries ended with IdempotencyError.
IdempotentReplayWitness ==
    \E s \in Sessions, o \in Committed :
        /\ outcome[s].kind = "IdempotencyError"
        /\ pc[s] = "done"
        /\ req[s].reference_id = req[o].reference_id
        /\ req[s].entries = req[o].entries
        /\ Cardinality({ t \in transactions : t.reference_id = req[s].reference_id }) = 1

\* C5: at most one committed Transaction row carries a given reference id, and
\* at most one request with a given reference id is committed.
OncePerReference ==
    /\ \A t, u \in transactions : t.reference_id = u.reference_id => t = u
    /\ \A s, o \in Committed : req[s].reference_id = req[o].reference_id => s = o

\* C5 witness: two calls with one reference id both passed the lookup; one was
\* committed and the other one's INSERT failed on the unique index.
OncePerReferenceWitness ==
    \E s \in Sessions, o \in Committed :
        /\ outcome[s].kind = "IntegrityError"
        /\ req[s].reference_id = req[o].reference_id

\* Every committed row that the seed did not write belongs to a committed request.
OnlyCommittedRows ==
    /\ \A t \in transactions \ SeedTransactions :
          \E s \in Committed : outcome[s].arg = t.id
    /\ \A p \in postings \ SeedPostings :
          \E s \in Committed : outcome[s].arg = p.transaction_id

\* Session s has failed, or fails or is closed in this step.
FailingStep(s) ==
    /\ pc'[s] # pc[s]
    /\ pc'[s] \in {"failed", "done"}
    /\ outcome'[s].kind # "ok"

\* C6: a request that fails, at whatever step, leaves the committed accounts,
\* transactions and postings as they were, when it fails and when its session
\* is closed; no committed row belongs to a request that failed.
AtomicFailure ==
    /\ []OnlyCommittedRows
    /\ [][\A s \in Sessions : FailingStep(s) => store' = store]_vars

\* C6 witness: Alice's wallet holds 30, a spend of 50 has failed with
\* InsufficientFunds and its session is closed; the wallet still holds 30 and
\* the only row added to the seed is the earlier spend of 70.
AtomicFailureWitness ==
    \E s \in Sessions :
        /\ req[s].kind = "spend"
        /\ req[s].entries = << <<3, -50>>, <<2, 50>> >>
        /\ outcome[s] = [kind |-> "InsufficientFundsError", arg |-> 3]
        /\ pc[s] = "done"
        /\ accounts[3].balance = 30
        /\ Cardinality(transactions) = Cardinality(SeedTransactions) + 1
        /\ Cardinality(postings) = Cardinality(SeedPostings) + 2

\* Session s waits for a lock that session o holds.
Waits(s, o) ==
    IF pc[s] = "lock"
    THEN ToLock(s) # << >> /\ Head(ToLock(s)) \in locked[o]
    ELSE pc[s] = "insert" /\ new_tx[o].reference_id = req[s].reference_id

\* No set of sessions in which every one waits for another one of the set.
NoWaitCycle ==
    \A D \in SUBSET Sessions :
        D # {} => \E s \in D : \A o \in D \ {s} : ~Waits(s, o)

\* C7: no state has calls that wait for each other's locks, and every call
\* that has started ends (committed or failed, its session closed).
DeadlockFreedom ==
    /\ []NoWaitCycle
    /\ \A s \in Sessions : (pc[s] = "call") ~> (pc[s] = "done")

\* C7 witness: two calls name the same two accounts in opposite orders, and
\* one waits for a row lock the other holds.
DeadlockFreedomWitness ==
    \E s, o \in Sessions :
        /\ s # o
        /\ Len(req[s].entries) = 2 /\ Len(req[o].entries) = 2
        /\ req[s].entries[1][1] = req[o].entries[2][1]
        /\ req[s].entries[2][1] = req[o].entries[1][1]
        /\ req[s].entries[1][1] # req[s].entries[2][1]
        /\ pc[s] = "lock" /\ Waits(s, o)

\* C8: among the committed rows, every transaction the seed did not write has
\* exactly the postings of its request's entries, and every posting's
\* transaction exists.
NoPartialTransaction ==
    /\ \A t \in transactions \ SeedTransactions :
          \E s \in Committed :
              /\ outcome[s].arg = t.id
              /\ Cardinality(PostingsOfTx(t.id)) = Len(req[s].entries)
              /\ \A i \in DOMAIN req[s].entries :
                    \E p \in PostingsOfTx(t.id) :
                        <<p.account_id, p.amount>> = req[s].entries[i]
    /\ \A p \in postings : \E t \in transactions : t.id = p.transaction_id

\* C8 witness: one request's transaction is committed with all its postings
\* while another request has flushed its Transaction row and not committed.
NoPartialTransactionWitness ==
    \E s \in Sessions, o \in Committed :
        /\ pc[s] = "commit"
        /\ new_tx[s] # NoTx
        /\ Cardinality(PostingsOfTx(outcome[o].arg)) = Len(req[o].entries)

\* The account ids the entries of session s name that no account row has.
Missing(s) == { req[s].entries[i][1] : i \in DOMAIN req[s].entries } \ DOMAIN accounts

\* C9: a balanced call that names a missing account never gets past account
\* resolution: once its FOR UPDATE statement has returned it has failed with
\* AccountNotFoundError carrying one of the missing ids, and it has nothing
\* flushed or pending.
AccountNotFoundAborts ==
    \A s \in Sessions :
        (Missing(s) # {} /\ EntrySum(req[s].entries) = 0) =>
            /\ pc[s] \notin {"insert", "commit"}
            /\ outcome[s].kind \in {"", "IdempotencyError", "AccountNotFoundError",
                                    "OperationalError"}
            /\ stmts[s] >= 2 => outcome[s].kind = "AccountNotFoundError"
            /\ outcome[s].kind = "AccountNotFoundError" => outcome[s].arg \in Missing(s)
            /\ NothingPending(s)

\* C9 witness: a call naming account 999 and Alice's wallet has ended with
\* AccountNotFoundError(999) and the store is as seeded.
AccountNotFoundAbortsWitness ==
    \E s \in Sessions :
        /\ 3 \in { req[s].entries[i][1] : i \in DOMAIN req[s].entries }
        /\ outcome[s] = [kind |-> "AccountNotFoundError", arg |-> 999]
        /\ pc[s] = "done"
        /\ accounts = SeedAccounts
        /\ transactions = SeedTransactions
        /\ postings = SeedPostings

\* C10: a call whose entries do not sum to zero fails with ValueError carrying
\* the sum, having executed no statement, requested no lock and changed nothing.
UnbalancedRejectedFirst ==
    \A s \in Sessions :
        (EntrySum(req[s].entries) # 0 /\ pc[s] # "call") =>
            /\ outcome[s] = [kind |-> "ValueError", arg |-> EntrySum(req[s].entries)]
            /\ stmts[s] = 0
            /\ locked[s] = {}
            /\ identity[s] = EmptyMap
            /\ NothingPending(s)

\* C10 witness: the entries (3, 10), (4, -5) were refused with sum 5 and the
\* store is as seeded.
UnbalancedRejectedFirstWitness ==
    \E s \in Sessions :
        /\ req[s].entries = << <<3, 10>>, <<4, -5>> >>
        /\ outcome[s] = [kind |-> "ValueError", arg |-> 5]
        /\ pc[s] = "done"
        /\ accounts = SeedAccounts
        /\ transactions = SeedTransactions
        /\ postings = SeedPostings

RECURSIVE NetChange(_, _)
\* The sum of the amounts the entries carry for account a.
NetChange(entries, a) ==
    IF entries = << >> THEN 0
    ELSE (IF entries[1][1] = a THEN entries[1][2] ELSE 0)
         + NetChange(SubSeq(entries, 2, Len(entries)), a)

RECURSIVE NetOfRequests(_, _)
\* The sum, over the requests of the sessions S, of their entries for account a.
NetOfRequests(S, a) ==
    IF S = {} THEN 0
    ELSE LET s == CHOOSE x \in S : TRUE
         IN  NetChange(req[s].entries, a) + NetOfRequests(S \ {s}, a)

\* C11: every committed call has exactly one Transaction row, with its
\* reference id and type, and exactly one Posting per entry with that entry's
\* account and amount; and every account's committed balance is its seeded
\* balance plus the entries of all committed calls for it (for a wallet: plus
\* the top-ups and bonuses, minus the spends).
AppliedExactly ==
    /\ \A s \in Committed :
          /\ Cardinality({ t \in transactions :
                             t.reference_id = req[s].reference_id }) = 1
          /\ \E t \in transactions :
                /\ t.id = outcome[s].arg
                /\ t.reference_id = req[s].reference_id
                /\ t.type = req[s].type
          /\ Cardinality(PostingsOfTx(outcome[s].arg)) = Len(req[s].entries)
          /\ \A i \in DOMAIN req[s].entries :
                \E p \in PostingsOfTx(outcome[s].arg) :
                    <<p.account_id, p.amount>> = req[s].entries[i]
    /\ \A a \in DOMAIN accounts :
          accounts[a].balance = SeedAccounts[a].balance + NetOfRequests(Committed, a)

\* Session s passed the lookup and the account resolution, and has failed
\* while a committed Transaction row carries its reference id: its INSERT
\* lost on the unique index.
LostOnUniqueIndex(s) ==
    /\ pc[s] = "failed"
    /\ stmts[s] >= 2
    /\ Missing(s) = {}
    /\ outcome[s].kind # "OperationalError"
    /\ RefCommitted(req[s].reference_id)

\* C12: of two concurrent calls with one reference id that both passed the
\* lookup, the one that loses on the unique index ends with IdempotencyError,
\* as a call that finds the reference id at the lookup does.
DuplicateRaceOutcome ==
    \A s \in Sessions : LostOnUniqueIndex(s) => outcome[s].kind = "IdempotencyError"

\* The accounts named by the entries of session s whose balance, as the
\* session holds it when the loop starts, plus the net of all its entries
\* for that account, is below zero, exempt names aside.
NetOverdrawn(s) ==
    { a \in DOMAIN identity[s] :
        /\ identity[s][a].name \notin {"Equity", "Treasury"}
        /\ identity[s][a].loaded + NetChange(req[s].entries, a) < 0 }

\* C13: the non-negative rule is applied to the net change of each account,
\* not entry by entry: a call fails with InsufficientFundsError only when the
\* net of its entries takes some non-exempt account below zero.
NetChangeChecked ==
    \A s \in Sessions :
        (pc[s] = "failed" /\ outcome[s].kind = "InsufficientFundsError")
            => NetOverdrawn(s) # {}

\* C14: when a call holds the row locks of all its accounts, the balance it
\* computes and checks each new balance from is that account's committed
\* balance, also when its session read the row before it took the lock.
FreshLockedBalances ==
    \A s \in Sessions :
        pc[s] = "insert" =>
            \A a \in locked[s] : identity[s][a].balance = accounts[a].balance

\* The distinct account ids the entries of session s name that have a row.
NamedRows(s) == { req[s].entries[i][1] : i \in DOMAIN req[s].entries } \cap DOMAIN accounts

\* Session s has changed a balance or inserted a row in its unit of work.
HasMutated(s) ==
    \/ new_tx[s] # NoTx
    \/ new_postings[s] # << >>
    \/ \E a \in DOMAIN identity[s] : identity[s][a].balance # identity[s][a].loaded

\* The locks of every session: rows its entries name only, taken in ascending
\* order of id, all of them held once the call is past the FOR UPDATE
\* statement or has mutated anything; a call that has mutated waits for no lock.
LocksBeforeMutation ==
    \A s \in Sessions :
        /\ locked[s] \subseteq NamedRows(s)
        /\ \A a \in locked[s] : \A b \in NamedRows(s) : b < a => b \in locked[s]
        /\ (pc[s] \in {"insert", "commit"} \/ HasMutated(s)) => locked[s] = NamedRows(s)
        /\ HasMutated(s) => \A o \in Sessions : ~Waits(s, o)

\* C15: a call locks exactly the distinct accounts its entries name, in
\* ascending order of id, holds all of them before it changes a balance or
\* inserts a row, and from its first mutation until its unit of work ends it
\* takes no further lock and waits for none, the unique index on the
\* reference id included.
LockDiscipline ==
    /\ []LocksBeforeMutation
    /\ [][\A s \in Sessions :
            HasMutated(s) => (locked'[s] = locked[s] \/ pc'[s] = "done")]_vars

\* C15 witness: a call holds the locks of its two accounts and has flushed its
\* Transaction row; another call, naming other accounts, holds its own locks
\* and waits at its INSERT for the first one's reference id.
LockDisciplineWitness ==
    \E s, o \in Sessions :
        /\ pc[s] = "commit" /\ HasMutated(s)
        /\ Cardinality(locked[s]) = 2
        /\ pc[o] = "insert" /\ ~HasMutated(o)
        /\ Cardinality(locked[o]) = 2
        /\ Waits(o, s)

RECURSIVE SeqEntries(_, _)
\* The loop over the entries run alone from the balances bal: the balances it
\* ends with, or ok = FALSE at the first refused entry.
SeqEntries(entries, bal) ==
    IF entries = << >> THEN [ok |-> TRUE, bal |-> bal]
    ELSE LET a == entries[1][1]
             new_balance == bal[a] + entries[1][2]
         IN  IF new_balance < 0 /\ accounts[a].name \notin {"Equity", "Treasury"}
             THEN [ok |-> FALSE, bal |-> bal]
             ELSE SeqEntries(SubSeq(entries, 2, Len(entries)),
                             [bal EXCEPT ![a] = new_balance])

\* The call of session s run alone, from start to end, in the state st
\* (balances, committed reference ids, accepted sessions).
SeqCall(st, s) ==
    LET entries == req[s].entries
        res == SeqEntries(entries, st.bal)
    IN  IF \/ entries = << >>
           \/ EntrySum(entries) # 0
           \/ req[s].reference_id \in st.refs
           \/ Missing(s) # {}
           \/ ~res.ok
        THEN st
        ELSE [bal |-> res.bal, refs |-> st.refs \cup {req[s].reference_id},
              ok |-> st.ok \cup {s}]

RECURSIVE SeqRun(_, _)
\* The calls of the sessions in `order` run one after the other.
SeqRun(order, st) ==
    IF order = << >> THEN st
    ELSE SeqRun(Tail(order), SeqCall(st, Head(order)))

\* Every order in which the sessions can run one after the other.
Orders ==
    { f \in [Sessions -> Sessions] : \A i, j \in Sessions : f[i] = f[j] => i = j }

\* C16: when all requests have ended (none of them by a timeout of the store),
\* the committed balances and the set of accepted calls are those of the same
\* calls run one after the other in some order.
Serializable ==
    (\A s \in Sessions : pc[s] = "done" /\ outcome[s].kind # "OperationalError") =>
        \E order \in Orders :
            LET end == SeqRun(order, [bal |-> [a \in DOMAIN accounts |->
                                                  SeedAccounts[a].balance],
                                      refs |-> {}, ok |-> {}])
            IN  /\ end.ok = Committed
                /\ \A a \in DOMAIN accounts : accounts[a].balance = end.bal[a]

\* C17: the rule is evaluated for all entries before the first mutation: a
\* call that has just failed with InsufficientFundsError has inserted no
\* Transaction row, added no Posting and changed no balance in its unit of
\* work.
EvaluationBeforeMutation ==
    \A s \in Sessions :
        (pc[s] = "failed" /\ outcome[s].kind = "InsufficientFundsError")
            => ~HasMutated(s)

\* The balances the loop of session s started from.
StartBalances(s) == [a \in DOMAIN identity[s] |-> identity[s][a].loaded]

\* C18: the loop accepts an entry that takes "Equity" or "Treasury" below zero
\* and refuses one that takes an account of any other name below zero, with
\* InsufficientFundsError carrying that account's id; whether a call passes
\* the loop depends on the names and the resulting balances alone.
ExemptionRule ==
    \A s \in Sessions :
        /\ pc[s] = "commit" => SeqEntries(req[s].entries, StartBalances(s)).ok
        /\ (pc[s] = "failed" /\ outcome[s].kind = "InsufficientFundsError") =>
              LET refused == req[s].entries[Len(new_postings[s]) + 1]
              IN  /\ ~SeqEntries(req[s].entries, StartBalances(s)).ok
                  /\ outcome[s].arg = refused[1]
                  /\ accounts[refused[1]].name \notin {"Equity", "Treasury"}
                  /\ identity[s][refused[1]].balance + refused[2] < 0

\* C18 witness: a call that debits Equity, already below zero, was committed
\* and Equity's balance fell further; a call that takes Alice's wallet below
\* zero was refused with InsufficientFundsError(3).
ExemptionRuleWitness ==
    \E s \in Committed, o \in Sessions :
        /\ req[s].entries = << <<1, -50>>, <<4, 50>> >>
        /\ accounts[1].balance = SeedAccounts[1].balance - 50
        /\ accounts[1].balance < 0
        /\ req[o].entries = << <<2, 200>>, <<3, -200>> >>
        /\ outcome[o] = [kind |-> "InsufficientFundsError", arg |-> 3]

\* C19: the history is append-only: no step of any operation (a call of
\* process_transaction through top_up, bonus, spend or directly, get_balance,
\* a failure, the close of a session) changes or removes a committed
\* Transaction or Posting row; the committed sets only grow.
AppendOnlyHistory ==
    [][/\ transactions \subseteq transactions'
       /\ postings \subseteq postings']_vars

\* C19 witness: a top-up of 50 for user 2 was committed on top of the seeded
\* rows, then get_balance for user 2 answered 150; the seeded rows are all
\* there, as they were.
AppendOnlyHistoryWitness ==
    \E s \in Committed, o \in Sessions :
        /\ req[s].kind = "top_up" /\ req[s].user_id = 2 /\ req[s].amount = 50
        /\ Cardinality(transactions) = Cardinality(SeedTransactions) + 1
        /\ Cardinality(postings) = Cardinality(SeedPostings) + 2
        /\ SeedTransactions \subseteq transactions
        /\ SeedPostings \subseteq postings
        /\ req[o].kind = "get_balance" /\ req[o].user_id = 2
        /\ outcome[o] = [kind |-> "balance", arg |-> 150]

\* C20: a top_up, bonus or spend request whose reference id is found
\* committed (IdempotencyError) is answered with status 409, the status
\* registered for IdempotencyError, not with the 400 of the other failures.
DuplicateAnsweredDistinctly ==
    \A s \in Sessions :
        ( /\ req[s].kind \in {"top_up", "bonus", "spend"}
          /\ outcome[s].kind = "IdempotencyError" )
        => status_code(s) = 409

\* Session s commits in this step.
Commits(s) == pc[s] = "commit" /\ pc'[s] = "done"

\* Session s serves a balance query in this step.
Queries(s) ==
    pc[s] = "idle" /\ req'[s].kind \in {"get_balance", "LedgerService.get_balance"}

\* C21: a call of process_transaction changes the balances of the accounts its
\* entries name and adds its Transaction and Posting rows, and nothing else:
\* no step changes the balance of an account that a committing call does not
\* name, no step changes the name, owner, currency or version of an account
\* or the set of accounts, every new row is the committing call's, and a
\* balance query changes no table, no sequence and no lock.
FrameEffects ==
    [][/\ DOMAIN accounts' = DOMAIN accounts
       /\ \A a \in DOMAIN accounts :
             /\ accounts'[a].name = accounts[a].name
             /\ accounts'[a].user_id = accounts[a].user_id
             /\ accounts'[a].currency = accounts[a].currency
             /\ accounts'[a].version = accounts[a].version
             /\ accounts'[a].balance # accounts[a].balance =>
                   \E s \in Sessions : Commits(s) /\ a \in NamedRows(s)
       /\ \A t \in transactions' \ transactions :
             \E s \in Sessions : Commits(s) /\ t.reference_id = req[s].reference_id
       /\ \A p \in postings' \ postings :
             \E s \in Sessions : Commits(s) /\ p.account_id \in NamedRows(s)
       /\ \A s \in Sessions :
             Queries(s) =>
                 /\ store' = store
                 /\ << tx_seq, posting_seq >>' = << tx_seq, posting_seq >>
                 /\ << locked, identity, new_tx, new_postings >>'
                        = << locked, identity, new_tx, new_postings >>]_vars

\* C21 witness: a top-up for user 2 was committed: Treasury and Alice's wallet
\* have changed, Equity and Bob's wallet hold what they were seeded with,
\* every account has its seeded name, owner, currency and version, and
\* LedgerService.get_balance has answered Bob's balance.
FrameEffectsWitness ==
    \E s \in Committed, o \in Sessions :
        /\ req[s].kind = "top_up" /\ req[s].user_id = 2
        /\ accounts[2].balance # SeedAccounts[2].balance
        /\ accounts[3].balance # SeedAccounts[3].balance
        /\ accounts[1] = SeedAccounts[1]
        /\ accounts[4] = SeedAccounts[4]
        /\ \A a \in DOMAIN accounts :
              [accounts[a] EXCEPT !.balance = 0] = [SeedAccounts[a] EXCEPT !.balance = 0]
        /\ req[o].kind = "LedgerService.get_balance"
        /\ outcome[o] = [kind |-> "balance", arg |-> BobBonus]

RECURSIVE BalanceSum(_, _)
\* The sum of the balances of the rows `ids` of an accounts table.
BalanceSum(table, ids) ==
    IF ids = {} THEN 0
    ELSE LET a == CHOOSE x \in ids : TRUE
         IN  table[a].balance + BalanceSum(table, ids \ {a})

\* C22: under every interleaving of top_up, bonus and spend requests the
\* committed balances of all accounts, exempt ones included, sum to what the
\* seeded balances sum to.
ValueConserved ==
    HandlersOnly =>
        BalanceSum(accounts, DOMAIN accounts) = BalanceSum(SeedAccounts, DOMAIN SeedAccounts)

RECURSIVE FirstRefused(_, _)
\* The account of the first entry, in list order, that takes a non-exempt
\* account below zero when the entries are applied one after the other from
\* the balances bal; 0 when no entry does.
FirstRefused(entries, bal) ==
    IF entries = << >> THEN 0
    ELSE LET a == entries[1][1]
             new_balance == bal[a] + entries[1][2]
         IN  IF new_balance < 0 /\ accounts[a].name \notin {"Equity", "Treasury"}
             THEN a
             ELSE FirstRefused(SubSeq(entries, 2, Len(entries)),
                               [bal EXCEPT ![a] = new_balance])

\* What a failure kind tells about the conditions that come before it.
EarlierConditionsPassed ==
    \A s \in Sessions :
        /\ outcome[s].kind \in {"IdempotencyError", "AccountNotFoundError",
                                "InsufficientFundsError"}
              => EntrySum(req[s].entries) = 0
        /\ outcome[s].kind = "InsufficientFundsError" => Missing(s) = {}

\* C23: process_transaction reports the earliest violated condition, in the
\* order unbalanced entries, duplicate reference id, account not found,
\* insufficient funds: the step that runs the first two checks fails with
\* ValueError when the entries are unbalanced, whatever else is wrong, and
\* otherwise with IdempotencyError when the reference id is committed; the
\* FOR UPDATE statement's return fails with AccountNotFoundError when an
\* account is missing, whatever the balances; and the loop fails with
\* InsufficientFundsError carrying the account of the first refused entry in
\* list order.
FailurePrecedence ==
    /\ []EarlierConditionsPassed
    /\ [][\A s \in Sessions :
            /\ (pc[s] = "call" /\ pc'[s] # "call") =>
                  IF EntrySum(req[s].entries) # 0
                  THEN outcome'[s].kind = "ValueError"
                  ELSE IF RefCommitted(req[s].reference_id)
                       THEN outcome'[s].kind = "IdempotencyError"
                       ELSE pc'[s] = "lock"
            /\ (pc[s] = "lock" /\ stmts'[s] # stmts[s]) =>
                  IF Missing(s) # {}
                  THEN /\ outcome'[s].kind = "AccountNotFoundError"
                       /\ outcome'[s].arg \in Missing(s)
                  ELSE pc'[s] = "insert"
            /\ ( /\ pc[s] = "insert" /\ pc'[s] # "insert"
                 /\ outcome'[s].kind \notin {"OperationalError", "IntegrityError"} ) =>
                  LET first == FirstRefused(req[s].entries, StartBalances(s))
                  IN  IF first = 0
                      THEN pc'[s] = "commit"
                      ELSE outcome'[s] = [kind |-> "InsufficientFundsError",
                                          arg |-> first]]_vars

\* C23 witness: a call was committed; a later call with the same reference
\* id, whose entries name the unknown account 999 and take Alice's wallet
\* below zero, has failed with IdempotencyError and has run the lookup only.
FailurePrecedenceWitness ==
    \E s \in Sessions, o \in Committed :
        /\ req[s].entries = << <<3, -200>>, <<999, 200>> >>
        /\ req[s].reference_id = req[o].reference_id
        /\ outcome[s].kind = "IdempotencyError"
        /\ stmts[s] = 1
        /\ pc[s] = "done"

====
